---------------------------- MODULE Spec2Model ----------------------------
(***************************************************************************)
(* Model of Make_Images_Square (src/source.py): the safe-name helper       *)
(* safe_dest_path, the square classifier is_image_square, the padding      *)
(* arithmetic, and the batch pipeline process_images_locally.              *)
(*                                                                         *)
(* Strings are sequences of character codes (ASCII), so that len(), slices *)
(* and concatenation are the sequence operations.  A directory is a        *)
(* function from the filenames it holds to their contents; the content of  *)
(* a file records the source file it was made from, how it was encoded,    *)
(* the size of its raster and where the source raster sits in it.          *)
(*                                                                         *)
(* Every operation the code wraps in try/except (shutil.copy2, Image.open, *)
(* Image.save, shutil.move, the write of the rename map) either succeeds   *)
(* or raises, at every call on its own; a file no decoder can read raises  *)
(* at every Image.open.  An operation that raises leaves no file behind.   *)
(* Each pass of a loop body is one step.  os.listdir returns the entries   *)
(* in a fixed order.  Runs follow one another on the same source           *)
(* directory, to which files may be added between two runs.                *)
(*                                                                         *)
(* Three specifications: PathSpec applies safe_dest_path to base           *)
(* directories and filenames around its two limits, PadSpec applies the    *)
(* padding arithmetic to every image size up to MaxDim, and Spec (FairSpec *)
(* with the fairness of a run that keeps running) is the pipeline.         *)
(***************************************************************************)
EXTENDS Integers, Sequences, FiniteSets, TLC

VARIABLES
    \* ---- safe_dest_path called on its own (PathSpec) ----
    p_pc,            \* "off" | "call" | "returned"
    p_base,          \* argument base_dir
    p_filename,      \* argument filename
    p_ret,           \* the returned tuple
    \* ---- the padding arithmetic called on its own (PadSpec) ----
    q_pc,            \* "off" | "call" | "returned"
    q_size,          \* img.size
    q_ret,           \* canvas size and paste offsets
    \* ---- process_images_locally (Spec) ----
    pc,              \* position in process_images_locally; "idle" between runs
    idx,             \* index of the current loop in listing
    listing,         \* the list the current loop iterates over
    run,             \* number of runs started so far
    original_dir,    \* filenames present in the source directory
    temp_input,      \* filenames staged in temp_root/to_process
    temp_output,     \* temp_root/processed: filename -> content
    final_output,    \* original_dir/squared_results: filename -> content
    map_file,        \* rows of squared_results/filename_mapping.csv, <<>> when absent
    all_images,
    processed_count,
    square_copied,
    moved_count,
    verified_square,
    renamed_map,
    result,          \* the value returned by the last run
    \* ---- history of the current run, read only by the properties ----
    outAtStart,      \* final_output when the run started
    srcAtStart,      \* original_dir when the run started
    rerun,           \* the run follows another one on an unchanged source
    failedOn,        \* filenames on which some operation of the run failed
    writes,          \* filenames the run wrote into final_output
    mapWrittenRun,   \* the run that last wrote map_file, 0 when none did
    mapWriteFailed   \* some run failed to write map_file

pathVars == <<p_pc, p_base, p_filename, p_ret>>
padVars == <<q_pc, q_size, q_ret>>
dirVars == <<original_dir, temp_input, temp_output, final_output, map_file>>
countVars == <<processed_count, square_copied, moved_count, verified_square>>
histVars == <<outAtStart, srcAtStart, rerun, failedOn, writes, mapWrittenRun,
              mapWriteFailed>>
runVars == <<pc, idx, listing, run, all_images, renamed_map, result>>
pipeVars == <<runVars, dirVars, countVars, histVars>>
vars == <<pathVars, padVars, pipeVars>>

-----------------------------------------------------------------------------
(* Strings *)

Max(a, b) == IF a >= b THEN a ELSE b

Rep(c, n) == [i \in 1..n |-> c]

Take(s, n) == SubSeq(s, 1, IF n <= Len(s) THEN n ELSE Len(s))

Drop(s, n) == SubSeq(s, n + 1, Len(s))

EndsWith(s, t) ==
    /\ Len(t) <= Len(s)
    /\ SubSeq(s, Len(s) - Len(t) + 1, Len(s)) = t

\* str.lower() on ASCII
Lower(s) == [i \in 1..Len(s) |-> IF s[i] \in 65..90 THEN s[i] + 32 ELSE s[i]]

\* os.sep, ".", "-"
SepChar == <<47>>
DotChar == <<46>>
DashChar == <<45>>

\* str.rfind(c): the last index of c in s, 0 when absent
RFind(s, c) ==
    LET at == {i \in 1..Len(s) : s[i] = c}
    IN  IF at = {} THEN 0 ELSE CHOOSE i \in at : \A j \in at : j <= i

\* os.path.splitext on a name without separators: split at the last dot,
\* unless only dots come before it
splitext(p) ==
    LET dotIndex == RFind(p, DotChar[1])
    IN  IF dotIndex > 0 /\ \E k \in 1..(dotIndex - 1) : p[k] # DotChar[1]
        THEN <<Take(p, dotIndex - 1), Drop(p, dotIndex - 1)>>
        ELSE <<p, <<>> >>

\* os.path.basename
basename(p) == Drop(p, RFind(p, SepChar[1]))

\* os.path.join of two components
join(a, b) ==
    IF b # <<>> /\ b[1] = SepChar[1] THEN b
    ELSE IF a = <<>> \/ a[Len(a)] = SepChar[1] THEN a \o b
    ELSE a \o SepChar \o b

\* The process's working directory, used by abspath on a relative path
Cwd == <<47, 119>>

RECURSIVE StripSep(_)
StripSep(p) ==
    IF Len(p) > 1 /\ p[Len(p)] = SepChar[1] THEN StripSep(Take(p, Len(p) - 1)) ELSE p

\* os.path.abspath on paths without "." and ".." components
abspath(p) ==
    IF p # <<>> /\ p[1] = SepChar[1] THEN StripSep(p) ELSE StripSep(join(Cwd, p))

-----------------------------------------------------------------------------
(* Long-path + safe-name helpers *)

_MAX_PATH == 240
_MAX_COMPONENT == 200

\* Code of a hexadecimal digit 0..15 ("0".."9", "a".."f")
HexChar(d) == IF d < 10 THEN 48 + d ELSE 87 + d

RECURSIVE WeightedSum(_, _, _, _)
WeightedSum(s, lo, hi, k) ==
    IF lo > hi THEN 0
    ELSE IF lo = hi THEN (s[lo] * (lo + k)) % 16
    ELSE LET mid == (lo + hi) \div 2
         IN  (WeightedSum(s, lo, mid, k) + WeightedSum(s, mid + 1, hi, k)) % 16

\* hashlib.sha1(filename.encode("utf-8")).hexdigest()[:8]: eight hexadecimal
\* digits that are a fixed function of the characters of the filename.  The
\* digest itself is replaced by a positional checksum; the model relies only
\* on its length, its alphabet and its being a function of the filename.
Sha1Hex8(filename) == [k \in 1..8 |-> HexChar(WeightedSum(filename, 1, Len(filename), k))]

safe_dest_path(base_dir, filename) ==
    LET base == abspath(base_dir)
        name == splitext(filename)[1]
        ext == splitext(filename)[2]
        candidate == join(base, filename)
        h == Sha1Hex8(filename)
        keep == Max(1, _MAX_COMPONENT - Len(ext) - 9)
        new_name == Take(name, keep) \o DashChar \o h \o ext
        dest == join(base, new_name)
        extra == Len(dest) - _MAX_PATH
        new_keep == Max(1, keep - extra)
        new_name2 == Take(name, new_keep) \o DashChar \o h \o ext
    IN  IF Len(basename(filename)) <= _MAX_COMPONENT /\ Len(candidate) <= _MAX_PATH
        THEN [dest_path |-> candidate, new_name |-> filename, was_shortened |-> FALSE]
        ELSE IF Len(dest) > _MAX_PATH
        THEN [dest_path |-> join(base, new_name2), new_name |-> new_name2,
              was_shortened |-> TRUE]
        ELSE [dest_path |-> dest, new_name |-> new_name, was_shortened |-> TRUE]

-----------------------------------------------------------------------------
(* Padding arithmetic of the non-square branch *)

\* PadCanvas with the offsets rounded up instead of down
PadCanvasCeil(width, height) ==
    LET max_dim == Max(width, height)
    IN  [size |-> <<max_dim, max_dim>>,
         offset |-> <<(max_dim - width + 1) \div 2, (max_dim - height + 1) \div 2>>]

\* Image.new("RGB", (max_dim, max_dim), white); paste at the floor-divided offsets
PadCanvas(width, height) ==
    LET max_dim == Max(width, height)
    IN  [size |-> <<max_dim, max_dim>>,
         offset |-> <<(max_dim - width) \div 2, (max_dim - height) \div 2>>]

-----------------------------------------------------------------------------
(* safe_dest_path on its own: every base directory and filename below *)

\* Lengths of the stems, and the extensions, of the filenames tried
StemLens == {1, 10, 20, 150, 187, 188, 196, 197, 300}
Exts == {<<>>, <<46, 112, 110, 103>>, <<46, 106, 112, 101, 103>>,
         DotChar \o Rep(120, 195)}
\* Lengths of the base directories tried: shallow, and close to the path limit
BaseLens == {2, 40, 100, 215, 220, 226, 230, 245}

PathFilenames == {Rep(97, n) \o e : n \in StemLens, e \in Exts}
\* Absolute paths, one of them with a trailing separator
PathBases ==
    {SepChar \o Rep(100, n - 1) : n \in BaseLens} \cup {SepChar \o Rep(100, 60) \o SepChar}

NoRet == [dest_path |-> <<>>, new_name |-> <<>>, was_shortened |-> FALSE]

\* The empty directory
EmptyDir == [n \in {} |-> n]

NoResult == [ok |-> FALSE, message |-> "none", processed |-> 0, copied |-> 0,
             moved |-> 0, total |-> 0]

PipelineOff ==
    /\ pc = "off" /\ idx = 0 /\ listing = <<>> /\ run = 0
    /\ original_dir = {} /\ temp_input = {}
    /\ temp_output = EmptyDir /\ final_output = EmptyDir /\ map_file = <<>>
    /\ all_images = <<>> /\ renamed_map = <<>> /\ result = NoResult
    /\ processed_count = 0 /\ square_copied = 0 /\ moved_count = 0
    /\ verified_square = 0
    /\ outAtStart = EmptyDir /\ srcAtStart = {} /\ rerun = FALSE
    /\ failedOn = {} /\ writes = {} /\ mapWrittenRun = 0 /\ mapWriteFailed = FALSE

PathOff == p_pc = "off" /\ p_base = <<>> /\ p_filename = <<>> /\ p_ret = NoRet
PadOff == q_pc = "off" /\ q_size = <<0, 0>> /\ q_ret = PadCanvas(0, 0)

PathInit ==
    /\ p_pc = "call"
    /\ p_base \in PathBases
    /\ p_filename \in PathFilenames
    /\ p_ret = NoRet
    /\ PadOff
    /\ PipelineOff

Resolve ==
    /\ p_pc = "call"
    /\ p_ret' = safe_dest_path(p_base, p_filename)
    /\ p_pc' = "returned"
    /\ UNCHANGED <<p_base, p_filename, padVars, pipeVars>>

PathNext == Resolve

PathSpec == PathInit /\ [][PathNext]_vars

-----------------------------------------------------------------------------
(* The padding arithmetic on its own: every image size up to MaxDim *)

MaxDim == 12

PadInit ==
    /\ q_pc = "call"
    /\ q_size \in (1..MaxDim) \X (1..MaxDim)
    /\ q_ret = PadCanvas(0, 0)
    /\ PathOff
    /\ PipelineOff

Pad ==
    /\ q_pc = "call"
    /\ q_ret' = PadCanvas(q_size[1], q_size[2])
    /\ q_pc' = "returned"
    /\ UNCHANGED <<q_size, pathVars, pipeVars>>

PadNext == Pad

PadSpec == PadInit /\ [][PadNext]_vars

-----------------------------------------------------------------------------
(* The files of the model *)

\* "a.png", 100 x 100
FileA == <<97>> \o <<46, 112, 110, 103>>
\* "b.jpg", 200 x 100
FileB == <<98>> \o <<46, 106, 112, 103>>
\* 210 times "n", then ".png": a non-square image under a name that is too long
FileLongN == Rep(110, 210) \o <<46, 112, 110, 103>>
\* 205 times "s", then ".JPG": a square image under a name that is too long
FileLongS == Rep(115, 205) \o <<46, 74, 80, 71>>
\* "u.gif": a file no decoder can open
FileU == <<117>> \o <<46, 103, 105, 102>>
\* "squared_results": the output directory, itself an entry of the source directory
SquaredResults == <<115, 113, 117, 97, 114, 101, 100, 95, 114, 101, 115, 117, 108,
                    116, 115>>

\* The order in which os.listdir returns the entries it finds
ListOrder == <<FileA, FileB, FileLongN, FileLongS, FileU, SquaredResults>>

Universe == {FileA, FileB, FileLongN, FileLongS, FileU}

\* What decoding a file gives: its size, when it can be decoded at all
ImageOf(f) ==
    IF f = FileA THEN [readable |-> TRUE, size |-> <<100, 100>>]
    ELSE IF f = FileB THEN [readable |-> TRUE, size |-> <<200, 100>>]
    ELSE IF f = FileLongN THEN [readable |-> TRUE, size |-> <<30, 45>>]
    ELSE IF f = FileLongS THEN [readable |-> TRUE, size |-> <<64, 64>>]
    ELSE [readable |-> FALSE, size |-> <<0, 0>>]

\* The directory the user selected, and original_dir/squared_results
OriginalDirPath == SepChar \o Rep(112, 19)
FinalOutputPath == join(OriginalDirPath, SquaredResults)

\* os.listdir of a directory holding the names in S
ListDir(S) == SelectSeq(ListOrder, LAMBDA f : f \in S)

Range(s) == {s[k] : k \in 1..Len(s)}

\* The allow-listed extensions
ImageExts ==
    { <<46, 106, 112, 103>>, <<46, 106, 112, 101, 103>>, <<46, 112, 110, 103>>,
      <<46, 103, 105, 102>>, <<46, 98, 109, 112>>, <<46, 116, 105, 102, 102>>,
      <<46, 119, 101, 98, 112>>, <<46, 106, 102, 105, 102>> }

\* filename.lower().endswith((".jpg", ".jpeg", ...))
IsImageName(filename) == \E e \in ImageExts : EndsWith(Lower(filename), e)

\* The names of the model that pass the extension filter
ImageNames == {f \in Range(ListOrder) : IsImageName(f)}

\* safe_dest_path(final_output, filename), for every name the run meets
DestOf == [f \in Range(ListOrder) |-> safe_dest_path(FinalOutputPath, f)]

\* The bytes of a source file, and of what shutil.copy2 makes of it
SourceBytes(f) ==
    [of |-> f, enc |-> "original", size |-> ImageOf(f).size, offset |-> <<0, 0>>]

\* The file new_img.save writes: the canvas with the image pasted on it,
\* as JPEG with quality 95 for .jpg and .jpeg, in the extension's format otherwise
PaddedBytes(f) ==
    LET c == PadCanvas(ImageOf(f).size[1], ImageOf(f).size[2])
        ext == Lower(splitext(f)[2])
    IN  [of |-> f,
         enc |-> IF ext \in {<<46, 106, 112, 103>>, <<46, 106, 112, 101, 103>>}
                 THEN "JPEG95" ELSE "default",
         size |-> c.size, offset |-> c.offset]

\* Image.open succeeds or raises; on a file no decoder can open it always raises
OpenOutcomes(f) == IF ImageOf(f).readable THEN {TRUE, FALSE} ELSE {FALSE}

\* is_image_square answering True for every image it can open
is_image_squareAnySize(f, opened) == opened

\* is_image_square: the sizes compared, and False when opening raised
is_image_square(f, opened) ==
    IF opened THEN ImageOf(f).size[1] = ImageOf(f).size[2] ELSE FALSE

\* Exists without the look at the directory
ExistsNever(name, dir) == FALSE

\* os.path.exists(dest_path) for a name of final_output
Exists(name, dir) == name \in DOMAIN dir

\* AfterException without the try: the exception leaves process_images_locally
AfterExceptionPropagates(stage) == "crashed"

\* The except clause of a loop body: the diagnostic is printed and the loop goes on
AfterException(stage) == stage

\* renamed_map.append((filename, new_name)) if shortened
Renamed(map, filename) ==
    IF DestOf[filename].was_shortened
    THEN Append(map, <<filename, DestOf[filename].new_name>>)
    ELSE map

\* A file written at name in a directory, replacing what was there
Put(dir, name, bytes) == (name :> bytes) @@ dir

\* A file removed from a directory
Remove(dir, name) == [n \in (DOMAIN dir) \ {name} |-> dir[n]]

-----------------------------------------------------------------------------
(* process_images_locally *)

MaxFiles == 2
MaxRuns == 2

Init ==
    /\ pc = "idle" /\ idx = 0 /\ listing = <<>> /\ run = 0
    /\ original_dir \in {S \in SUBSET Universe : Cardinality(S) <= MaxFiles}
    /\ temp_input = {}
    /\ temp_output = EmptyDir /\ final_output = EmptyDir /\ map_file = <<>>
    /\ all_images = <<>> /\ renamed_map = <<>> /\ result = NoResult
    /\ processed_count = 0 /\ square_copied = 0 /\ moved_count = 0
    /\ verified_square = 0
    /\ outAtStart = EmptyDir /\ srcAtStart = {} /\ rerun = FALSE
    /\ failedOn = {} /\ writes = {} /\ mapWrittenRun = 0 /\ mapWriteFailed = FALSE
    /\ PathOff
    /\ PadOff

\* Setup: the temp root of this run and squared_results are created.  The locals
\* of the call (all_images, renamed_map, the counters) start afresh: the code
\* assigns each of them before it reads it.
StartRun ==
    /\ pc = "idle"
    /\ run < MaxRuns
    /\ run' = run + 1
    /\ pc' = "stage"
    /\ idx' = 1
    /\ listing' = ListDir(original_dir \cup {SquaredResults})
    /\ temp_input' = {}
    /\ temp_output' = EmptyDir
    /\ all_images' = <<>>
    /\ renamed_map' = <<>>
    /\ result' = NoResult
    /\ processed_count' = 0 /\ square_copied' = 0 /\ moved_count' = 0
    /\ verified_square' = 0
    /\ outAtStart' = final_output
    /\ srcAtStart' = original_dir
    /\ rerun' = (run >= 1 /\ original_dir = srcAtStart)
    /\ failedOn' = {}
    /\ writes' = {}
    /\ UNCHANGED <<original_dir, final_output, map_file, mapWrittenRun, mapWriteFailed,
                   pathVars, padVars>>

\* 1. Copy ALL images to temp input for processing: one file
StageFile ==
    /\ pc = "stage"
    /\ idx <= Len(listing)
    /\ LET filename == listing[idx]
       IN  IF filename \in ImageNames
           THEN \/ /\ temp_input' = temp_input \cup {filename}
                   /\ all_images' = Append(all_images, filename)
                   /\ pc' = pc
                   /\ UNCHANGED failedOn
                \/ /\ failedOn' = failedOn \cup {filename}
                   /\ pc' = AfterException(pc)
                   /\ UNCHANGED <<temp_input, all_images>>
           ELSE /\ pc' = pc
                /\ UNCHANGED <<temp_input, all_images, failedOn>>
    /\ idx' = idx + 1
    /\ UNCHANGED <<listing, run, renamed_map, result, original_dir, temp_output,
                   final_output, map_file, countVars, outAtStart, srcAtStart, rerun,
                   writes, mapWrittenRun, mapWriteFailed, pathVars, padVars>>

\* Report calling a run a success only when it handled some file
ReportByCounts(ok, message) ==
    [ok |-> ok /\ processed_count + square_copied + moved_count > 0,
     message |-> message, processed |-> processed_count,
     copied |-> square_copied, moved |-> moved_count,
     total |-> Cardinality(DOMAIN final_output) + (IF map_file = <<>> THEN 0 ELSE 1)]

\* The result tuple of a run
Report(ok, message) ==
    [ok |-> ok, message |-> message, processed |-> processed_count,
     copied |-> square_copied, moved |-> moved_count,
     total |-> Cardinality(DOMAIN final_output) + (IF map_file = <<>> THEN 0 ELSE 1)]

\* if not all_images: the temp root is removed and the run returns
StageDone ==
    /\ pc = "stage"
    /\ idx > Len(listing)
    /\ IF all_images = <<>>
       THEN /\ result' = [NoResult EXCEPT !.message = "No valid images found"]
            /\ pc' = "idle"
            /\ idx' = 0
            /\ listing' = <<>>
            /\ temp_input' = {}
       ELSE /\ pc' = "classify"
            /\ idx' = 1
            /\ listing' = all_images
            /\ UNCHANGED <<result, temp_input>>
    /\ UNCHANGED <<run, all_images, renamed_map, original_dir, temp_output,
                   final_output, map_file, countVars, histVars, pathVars, padVars>>

\* shutil.copy2(src, dest_path) went through, and the statements after it
CopyToFinal(filename) ==
    /\ final_output' = Put(final_output, DestOf[filename].new_name, SourceBytes(filename))
    /\ renamed_map' = Renamed(renamed_map, filename)
    /\ square_copied' = square_copied + 1
    /\ writes' = writes \cup {filename}

\* An operation on filename raised: the except clause of the loop body runs
Raised(filename) ==
    /\ failedOn' = failedOn \cup {filename}
    /\ pc' = AfterException(pc)

\* 2. Process non-square images: one staged file
ClassifyFile ==
    /\ pc = "classify"
    /\ idx <= Len(listing)
    /\ LET filename == listing[idx]
           new_name == DestOf[filename].new_name
       IN  IF Exists(new_name, final_output)
           THEN \* Skip if already in final output (from previous runs)
                /\ pc' = pc
                /\ UNCHANGED <<temp_output, final_output, renamed_map, processed_count,
                               square_copied, failedOn, writes>>
           ELSE \E opened \in OpenOutcomes(filename) :
                IF is_image_square(filename, opened)
                THEN \/ /\ CopyToFinal(filename)
                        /\ pc' = pc
                        /\ UNCHANGED <<temp_output, processed_count, failedOn>>
                     \/ /\ Raised(filename)
                        /\ UNCHANGED <<temp_output, final_output, renamed_map,
                                       processed_count, square_copied, writes>>
                ELSE \E reopened \in OpenOutcomes(filename) :
                     IF ~reopened
                     THEN \* Image.open raised
                          /\ Raised(filename)
                          /\ UNCHANGED <<temp_output, final_output, renamed_map,
                                         processed_count, square_copied, writes>>
                     ELSE \/ \* new_img.save raised
                             /\ Raised(filename)
                             /\ UNCHANGED <<temp_output, final_output, renamed_map,
                                            processed_count, square_copied, writes>>
                          \/ \* saved to temp_output, shutil.move raised
                             /\ temp_output' = Put(temp_output, filename,
                                                   PaddedBytes(filename))
                             /\ Raised(filename)
                             /\ UNCHANGED <<final_output, renamed_map, processed_count,
                                            square_copied, writes>>
                          \/ \* saved to temp_output and moved to final_output
                             /\ final_output' = Put(final_output, new_name,
                                                    PaddedBytes(filename))
                             /\ renamed_map' = Renamed(renamed_map, filename)
                             /\ processed_count' = processed_count + 1
                             /\ writes' = writes \cup {filename}
                             /\ failedOn' = IF opened THEN failedOn
                                            ELSE failedOn \cup {filename}
                             /\ pc' = pc
                             /\ UNCHANGED <<temp_output, square_copied>>
    /\ idx' = idx + 1
    /\ UNCHANGED <<listing, run, all_images, result, original_dir, temp_input,
                   map_file, moved_count, verified_square, outAtStart, srcAtStart,
                   rerun, mapWrittenRun, mapWriteFailed, pathVars, padVars>>

ClassifyDone ==
    /\ pc = "classify"
    /\ idx > Len(listing)
    /\ pc' = "sweep"
    /\ idx' = 1
    /\ listing' = ListDir(original_dir \cup {SquaredResults})
    /\ UNCHANGED <<run, all_images, renamed_map, result, dirVars, countVars, histVars,
                   pathVars, padVars>>

\* 3. Final sweep to catch any missed square images: one entry of original_dir
SweepFile ==
    /\ pc = "sweep"
    /\ idx <= Len(listing)
    /\ LET filename == listing[idx]
           new_name == DestOf[filename].new_name
       IN  IF filename \in ImageNames /\ ~Exists(new_name, final_output)
           THEN \E opened \in OpenOutcomes(filename) :
                IF is_image_square(filename, opened)
                THEN \/ /\ CopyToFinal(filename)
                        /\ pc' = pc
                        /\ UNCHANGED failedOn
                     \/ /\ Raised(filename)
                        /\ UNCHANGED <<final_output, renamed_map, square_copied, writes>>
                ELSE /\ failedOn' = IF opened THEN failedOn
                                    ELSE failedOn \cup {filename}
                     /\ pc' = pc
                     /\ UNCHANGED <<final_output, renamed_map, square_copied, writes>>
           ELSE /\ pc' = pc
                /\ UNCHANGED <<final_output, renamed_map, square_copied, failedOn,
                               writes>>
    /\ idx' = idx + 1
    /\ UNCHANGED <<listing, run, all_images, result, original_dir, temp_input,
                   temp_output, map_file, processed_count, moved_count,
                   verified_square, outAtStart, srcAtStart, rerun, mapWrittenRun,
                   mapWriteFailed, pathVars, padVars>>

SweepDone ==
    /\ pc = "sweep"
    /\ idx > Len(listing)
    /\ pc' = "consolidate"
    /\ idx' = 1
    /\ listing' = ListDir(DOMAIN temp_output)
    /\ moved_count' = 0
    /\ UNCHANGED <<run, all_images, renamed_map, result, dirVars, processed_count,
                   square_copied, verified_square, histVars, pathVars, padVars>>

\* 4. Move any remaining processed images from temp_output to final_output: one file
ConsolidateFile ==
    /\ pc = "consolidate"
    /\ idx <= Len(listing)
    /\ LET filename == listing[idx]
           new_name == DestOf[filename].new_name
       IN  \/ /\ final_output' = Put(final_output, new_name, temp_output[filename])
              /\ temp_output' = Remove(temp_output, filename)
              /\ moved_count' = moved_count + 1
              /\ renamed_map' = Renamed(renamed_map, filename)
              /\ writes' = writes \cup {filename}
              /\ pc' = pc
              /\ UNCHANGED failedOn
           \/ /\ Raised(filename)
              /\ UNCHANGED <<final_output, temp_output, moved_count, renamed_map,
                             writes>>
    /\ idx' = idx + 1
    /\ UNCHANGED <<listing, run, all_images, result, original_dir, temp_input,
                   map_file, processed_count, square_copied, verified_square,
                   outAtStart, srcAtStart, rerun, mapWrittenRun, mapWriteFailed,
                   pathVars, padVars>>

ConsolidateDone ==
    /\ pc = "consolidate"
    /\ idx > Len(listing)
    /\ pc' = "verify"
    /\ idx' = 1
    /\ listing' = ListDir(original_dir \cup {SquaredResults})
    /\ verified_square' = 0
    /\ UNCHANGED <<run, all_images, renamed_map, result, dirVars, processed_count,
                   square_copied, moved_count, histVars, pathVars, padVars>>

\* 5. Verify all square images made it: one entry of original_dir
VerifyFile ==
    /\ pc = "verify"
    /\ idx <= Len(listing)
    /\ LET filename == listing[idx]
           new_name == DestOf[filename].new_name
       IN  IF filename \in ImageNames
           THEN \E opened \in OpenOutcomes(filename) :
                IF is_image_square(filename, opened) /\ ~Exists(new_name, final_output)
                THEN \/ /\ CopyToFinal(filename)
                        /\ verified_square' = verified_square + 1
                        /\ pc' = pc
                        /\ UNCHANGED failedOn
                     \/ /\ Raised(filename)
                        /\ UNCHANGED <<final_output, renamed_map, square_copied,
                                       verified_square, writes>>
                ELSE /\ failedOn' = IF opened THEN failedOn
                                    ELSE failedOn \cup {filename}
                     /\ pc' = pc
                     /\ UNCHANGED <<final_output, renamed_map, square_copied,
                                    verified_square, writes>>
           ELSE /\ pc' = pc
                /\ UNCHANGED <<final_output, renamed_map, square_copied,
                               verified_square, failedOn, writes>>
    /\ idx' = idx + 1
    /\ UNCHANGED <<listing, run, all_images, result, original_dir, temp_input,
                   temp_output, map_file, processed_count, moved_count, outAtStart,
                   srcAtStart, rerun, mapWrittenRun, mapWriteFailed, pathVars, padVars>>

VerifyDone ==
    /\ pc = "verify"
    /\ idx > Len(listing)
    /\ pc' = "emit"
    /\ idx' = 0
    /\ listing' = <<>>
    /\ UNCHANGED <<run, all_images, renamed_map, result, dirVars, countVars, histVars,
                   pathVars, padVars>>

\* Write a rename mapping if any names were shortened: the file is opened with
\* mode "w" and holds the rows of renamed_map
EmitRenameMap ==
    /\ pc = "emit"
    /\ IF renamed_map # <<>>
       THEN \/ /\ map_file' = renamed_map
               /\ mapWrittenRun' = run
               /\ pc' = "cleanup"
               /\ UNCHANGED mapWriteFailed
            \/ /\ mapWriteFailed' = TRUE
               /\ pc' = AfterException("cleanup")
               /\ UNCHANGED <<map_file, mapWrittenRun>>
       ELSE /\ pc' = "cleanup"
            /\ UNCHANGED <<map_file, mapWrittenRun, mapWriteFailed>>
    /\ UNCHANGED <<idx, listing, run, all_images, renamed_map, result, original_dir,
                   temp_input, temp_output, final_output, countVars, outAtStart,
                   srcAtStart, rerun, failedOn, writes, pathVars, padVars>>

\* shutil.rmtree(temp_root, ignore_errors=True)
Cleanup ==
    /\ pc = "cleanup"
    /\ temp_input' = {}
    /\ temp_output' = EmptyDir
    /\ pc' = "report"
    /\ UNCHANGED <<idx, listing, run, all_images, renamed_map, result, original_dir,
                   final_output, map_file, countVars, histVars, pathVars, padVars>>

\* return True, "Final Results: ..."
ReturnReport ==
    /\ pc = "report"
    /\ result' = Report(TRUE, "Final Results")
    /\ pc' = "idle"
    /\ UNCHANGED <<idx, listing, run, all_images, renamed_map, dirVars, countVars,
                   histVars, pathVars, padVars>>

\* Between two runs the user puts another file into the source directory
AddFile ==
    /\ pc = "idle"
    /\ run >= 1
    /\ run < MaxRuns
    /\ Cardinality(original_dir) < MaxFiles
    /\ \E f \in Universe \ original_dir : original_dir' = original_dir \cup {f}
    /\ UNCHANGED <<runVars, temp_input, temp_output, final_output, map_file, countVars,
                   histVars, pathVars, padVars>>

\* The steps of one run, in the order the code takes them
RunStep ==
    \/ StageFile
    \/ StageDone
    \/ ClassifyFile
    \/ ClassifyDone
    \/ SweepFile
    \/ SweepDone
    \/ ConsolidateFile
    \/ ConsolidateDone
    \/ VerifyFile
    \/ VerifyDone
    \/ EmitRenameMap
    \/ Cleanup
    \/ ReturnReport

Next ==
    \/ StartRun
    \/ RunStep
    \/ AddFile

Spec == Init /\ [][Next]_vars

\* A run, once started, keeps taking steps until it returns
FairSpec == Spec /\ WF_vars(RunStep)

-----------------------------------------------------------------------------
(* Properties *)

\* The last run has returned
Returned == pc = "idle" /\ run >= 1

\* The images of the source directory of the run that can be classified
Classifiable(f) == IsImageName(f) /\ ImageOf(f).readable

IsSquare(f) == ImageOf(f).size[1] = ImageOf(f).size[2]

\* The entries of the output made from source file f
EntriesOf(f) == {n \in DOMAIN final_output : final_output[n].of = f}

\* Every entry of the output sits under the resolved name of the file it was made from
UnderResolvedNames ==
    \A n \in DOMAIN final_output : DestOf[final_output[n].of].new_name = n

\* A direct copy if square, a padded version if non-square
RightKind(f, bytes) ==
    IF IsSquare(f)
    THEN bytes.enc = "original" /\ bytes.size = ImageOf(f).size
    ELSE /\ bytes.enc # "original"
         /\ bytes.size[1] = bytes.size[2]
         /\ bytes.size[1] = Max(ImageOf(f).size[1], ImageOf(f).size[2])

\* The base directory leaves room for the shortest name safe_dest_path can build
\* (one character of the stem, "-", the hash, the extension)
RoomForShortName ==
    LET ext == splitext(p_filename)[2]
    IN  /\ 1 + 9 + Len(ext) <= _MAX_COMPONENT
        /\ Len(abspath(p_base)) + 1 + 1 + 9 + Len(ext) <= _MAX_PATH

\* C1 (as claimed): a shortened name is at most _MAX_COMPONENT characters long and
\* its full destination path at most _MAX_PATH characters long, whenever the base
\* directory and the extension leave room for such a name at all.
C1_ShortenedWithinLimits ==
    (p_pc = "returned" /\ p_ret.was_shortened /\ RoomForShortName)
        => /\ Len(p_ret.new_name) <= _MAX_COMPONENT
           /\ Len(p_ret.dest_path) <= _MAX_PATH

SameNamesAndNothingDone ==
    /\ DOMAIN final_output = DOMAIN outAtStart
    /\ \A n, m \in DOMAIN final_output :
          final_output[n].of = final_output[m].of => n = m
    /\ result.processed = 0 /\ processed_count = 0
    /\ result.copied = 0 /\ square_copied = 0
    /\ result.moved = 0 /\ moved_count = 0

\* C3 (as claimed): a run that follows another one on the same unchanged source
\* and output leaves the same set of destination names, with no duplicates, and
\* reports zero processed, zero square-copied and zero moved files.
C3_SecondRunIdle == (Returned /\ rerun) => SameNamesAndNothingDone

\* Every classifiable image of the source had its destination when the run started
CompleteAtStart ==
    \A f \in srcAtStart : Classifiable(f) => DestOf[f].new_name \in DOMAIN outAtStart

\* C3 (amended): when the first run left every classifiable source image at its
\* resolved destination, a second run on the same unchanged source and output
\* leaves the same set of destination names, with no duplicates, and reports
\* zero processed, zero square-copied and zero moved files.
C3_SecondRunIdleWhenComplete ==
    (Returned /\ rerun /\ CompleteAtStart) => SameNamesAndNothingDone

\* A second run over two images that the first run had both put into the output
C3_Witness ==
    /\ Returned
    /\ rerun
    /\ result.ok
    /\ CompleteAtStart
    /\ Cardinality(DOMAIN outAtStart) = 2

\* The number of rows of the rename map for source file f
RowsOf(map, f) == Cardinality({k \in 1..Len(map) : map[k][1] = f})

\* C4 (as claimed): in the rename map a run writes at its end, every file the
\* run wrote into the output under a shortened name has exactly one row, and
\* there is no row for a file whose name was not shortened.
C4_RenameMapExact ==
    (Returned /\ mapWrittenRun = run) =>
        /\ \A f \in writes : DestOf[f].was_shortened => RowsOf(map_file, f) = 1
        /\ \A k \in 1..Len(map_file) :
              /\ DestOf[map_file[k][1]].was_shortened
              /\ map_file[k][1] \in writes
              /\ map_file[k][2] = DestOf[map_file[k][1]].new_name

\* C5 (as claimed): a run returns failure only when the source directory holds no
\* file with an allow-listed extension.
C5_FailureOnlyWithoutImages ==
    (Returned /\ ~result.ok) => \A f \in srcAtStart : ~IsImageName(f)

\* C5 (amended): a run returns failure exactly when no image was staged, that is
\* when the source directory holds no file with an allow-listed extension or the
\* staging copy of every such file failed; once an image is staged the run
\* returns success whatever fails afterwards.
C5_FailureIffNothingStaged ==
    Returned =>
        /\ result.ok <=> all_images # <<>>
        /\ ~result.ok =>
              /\ \A f \in srcAtStart : IsImageName(f) => f \in failedOn
              /\ writes = {}
              /\ final_output = outAtStart

\* A run that staged images, lost every one of them to a failure, and succeeded
C5_Witness ==
    /\ Returned
    /\ result.ok
    /\ writes = {}
    /\ Range(all_images) \subseteq failedOn

\* C6 (as claimed): after a run, the output entry of every square source image
\* is byte for byte the source file.
C6_SquareCopiedVerbatim ==
    Returned =>
        \A f \in srcAtStart :
            (Classifiable(f) /\ IsSquare(f) /\ DestOf[f].new_name \in DOMAIN final_output)
                => final_output[DestOf[f].new_name] = SourceBytes(f)

\* C7: for width # height the canvas is max x max, the offsets are not negative,
\* the pasted image lies inside the canvas, and the padding on the right and at
\* the bottom is that on the left and at the top, or one pixel more.
C7_CenteredPadding ==
    (q_pc = "returned" /\ q_size[1] # q_size[2]) =>
        LET w == q_size[1]
            h == q_size[2]
            m == IF w >= h THEN w ELSE h
            x == q_ret.offset[1]
            y == q_ret.offset[2]
        IN  /\ q_ret.size = <<m, m>>
            /\ x >= 0 /\ y >= 0
            /\ x + w <= m /\ y + h <= m
            /\ (m - w - x) - x \in {0, 1}
            /\ (m - h - y) - y \in {0, 1}
            /\ x = 0 \/ y = 0

\* A difference that is odd
C7_Witness ==
    /\ q_pc = "returned"
    /\ q_size[1] # q_size[2]
    /\ (q_size[2] - q_size[1]) % 2 = 1
    /\ q_ret.offset[1] > 0

Loops == {"stage", "classify", "sweep", "consolidate", "verify"}

\* Each loop takes its files one after the other, whatever happens to a file, and
\* is left only after the last one, for the next stage or the return
LoopsRunToTheEnd ==
    /\ (pc \in Loops /\ idx <= Len(listing))
          => (pc' = pc /\ idx' = idx + 1 /\ listing' = listing)
    /\ (pc \in Loops /\ idx > Len(listing))
          => pc' \in {"idle", "classify", "sweep", "consolidate", "verify", "emit"}
    /\ pc = "emit" => pc' = "cleanup"

C9_ExistingEntriesKept ==
    \A n \in DOMAIN outAtStart :
        /\ n \in DOMAIN final_output
        /\ final_output[n] = outAtStart[n]

\* A run that found an entry in the output and moved another one in from temp
C9_Witness ==
    /\ Returned
    /\ outAtStart # EmptyDir
    /\ moved_count > 0
    /\ \E f \in srcAtStart : DestOf[f].new_name \in DOMAIN outAtStart

\* C10 (as claimed): after any sequence of runs in which every write of the map
\* went through, the map holds a row for every entry of the output that is
\* stored under a shortened name.
C10_MapCoversAllRuns ==
    (Returned /\ ~mapWriteFailed) =>
        \A n \in DOMAIN final_output :
            DestOf[final_output[n].of].was_shortened
                => \E k \in 1..Len(map_file) : map_file[k] = <<final_output[n].of, n>>

=============================================================================
